---- MODULE Spec2Model ----
(***************************************************************************)
(* A model of the auction contract (src/src/auction/src/lib.rs) and of the *)
(* factory contract (src/src/factory/src/lib.rs) of fadroma-workshop.      *)
(*                                                                         *)
(* Spec        one auction instance: bid, retract_bid, claim_proceeds, the *)
(*             killswitch guard, the admin role and the passage of blocks. *)
(* HistorySpec the same auction, with the histories of its payouts kept.    *)
(* FactorySpec the factory: create_auction, the deferred instantiation of  *)
(*             the child auction and the reply that resolves its address.  *)
(*                                                                         *)
(* Every top-level call is one transaction: it commits its storage writes  *)
(* and its outgoing messages together, or none of them.                    *)
(***************************************************************************)
EXTENDS Integers, Sequences, FiniteSets, TLC

(***************************************************************************)
(* Bounds of the model.                                                    *)
(***************************************************************************)
EndBlock == 2       \* the end_block the auction is created with
MaxHeld == 3        \* bids are enumerated while the contract holds at most this
MaxAuctions == 2    \* create_auction is enumerated up to this many registry entries

\* Blocks pass until the sale has finished.
MaxHeight == EndBlock + 1

\* Senders of transactions to the auction.
Users == {"admin", "alice", "bob"}

\* The address of the factory, the sender of the auction's instantiation.
FACTORY == "factory"

(***************************************************************************)
(* Addresses.  A human address (Addr) is a string; its canonical form      *)
(* (CanonicalAddr) is a distinct value wrapping the bytes.                 *)
(***************************************************************************)
Canonize(addr) == [canon |-> addr]

Humanize(caddr) == caddr.canon

\* Option<T>
None == << >>

Some(x) == << x >>

(***************************************************************************)
(* Coins attached to a message (MessageInfo.funds).                        *)
(***************************************************************************)
Coin(amount, denom) == [denom |-> denom, amount |-> amount]

Funds ==
    {<< >>, << Coin(1, "other") >>}
    \cup {<< Coin(a, "uscrt") >> : a \in 1..MaxHeld}
    \cup {<< Coin(1, "other"), Coin(a, "uscrt") >> : a \in 1..MaxHeld}

\* info.funds.into_iter().find(|x| x.denom == "uscrt").map(|x| x.amount).unwrap_or_default()
RECURSIVE UscrtAmount(_)
UscrtAmount(funds) ==
    IF funds = << >> THEN 0
    ELSE IF Head(funds).denom = "uscrt" THEN Head(funds).amount
    ELSE UscrtAmount(Tail(funds))

(***************************************************************************)
(* State.                                                                  *)
(***************************************************************************)
VARIABLES
    height,         \* env.block.height
    INFO,           \* SaleInfo of the auction
    admin,          \* the admin stored by admin::init
    status,         \* the killswitch status
    HIGHEST_BID,    \* Option<CanonicalAddr>
    bidders,        \* the ledger: a sequence of [key, value] in insertion order
    held,           \* uscrt the bank holds for the auction contract
    claimed,        \* history: a claim_proceeds has succeeded
    retracted,      \* history: the senders whose retract_bid has succeeded
    hasBid,         \* history: a bid has succeeded
    paidOut,        \* history (HistorySpec): the ledger keys a payout has
                    \* set to zero
    proceeds        \* history (HistorySpec): the ledger keys claim_proceeds
                    \* has paid a positive balance of to the admin

avars == << height, INFO, admin, status, HIGHEST_BID, bidders, held,
            claimed, retracted, hasBid, paidOut, proceeds >>

VARIABLES
    auctions,       \* the factory's registry (IterableStorage), as the running
                    \* transaction sees it
    committed,      \* the registry as of the last committed transaction
    instances,      \* the auction instances on chain, in order of creation
    pc,             \* "idle", or the step of create_auction that comes next
    submsg,         \* the sub-message or reply in flight
    discarded,      \* history: the last transaction on the factory was discarded
    spawning        \* the instance the running transaction has instantiated

fvars == << auctions, committed, instances, pc, submsg, discarded, spawning >>

vars == << avars, fvars >>

(***************************************************************************)
(* InsertOnlyMap<CanonicalAddr, Uint128>                                   *)
(***************************************************************************)
Keys(map) == {map[i].key : i \in 1..Len(map)}

IndexOf(map, key) == CHOOSE i \in 1..Len(map) : map[i].key = key

get_or_default(map, key) ==
    IF key \in Keys(map) THEN map[IndexOf(map, key)].value ELSE 0

insert(map, key, value) ==
    IF key \in Keys(map)
    THEN [map EXCEPT ![IndexOf(map, key)].value = value]
    ELSE Append(map, [key |-> key, value |-> value])

\* bidders().values(): the values in storage order
RECURSIVE values(_)
values(map) ==
    IF map = << >> THEN << >> ELSE << Head(map).value >> \o values(Tail(map))

RECURSIVE SumSeq(_)
SumSeq(s) == IF s = << >> THEN 0 ELSE Head(s) + SumSeq(Tail(s))

\* The sum of all ledger balances.
LedgerTotal(map) == SumSeq(values(map))

(***************************************************************************)
(* Responses of the handlers.  store is [HIGHEST_BID, bidders].            *)
(***************************************************************************)
Store == [HIGHEST_BID |-> HIGHEST_BID, bidders |-> bidders]

Ok(store, messages) ==
    [ok |-> TRUE, err |-> "", store |-> store, messages |-> messages]

Err(store, err) ==
    [ok |-> FALSE, err |-> err, store |-> store, messages |-> << >>]

BankSend(to, amount) == [to_address |-> to, amount |-> amount]

(***************************************************************************)
(* The auction's handlers.  h is env.block.height, sender is info.sender.  *)
(***************************************************************************)
SaleFinishedNever(h) == FALSE

\* bid: sale_info.end_block < env.block.height
SaleFinished(h) == INFO.end_block < h

\* retract_bid, claim_proceeds: sale_info.end_block > env.block.height
SaleNotFinished(h) == INFO.end_block > h

OutbidsReversed(balance, current_highest) == balance < current_highest

OutbidsOrTies(balance, current_highest) == balance >= current_highest

\* bid: balance > current_highest
Outbids(balance, current_highest) == balance > current_highest

AccumulateReplaces(balance, funds) == UscrtAmount(funds)

\* bid: balance += the attached uscrt
Accumulate(balance, funds) == balance + UscrtAmount(funds)

FirstBidIfPositive(s, balance) == IF balance > 0 THEN Some(s) ELSE None

\* bid: the else branch, "This is the first bid."
FirstBid(s, balance) == Some(s)

bid(store, h, sender, funds) ==
    IF SaleFinished(h) THEN Err(store, "Sale has finished.")
    ELSE
        LET s == Canonize(sender)
            balance == Accumulate(get_or_default(store.bidders, s), funds)
            map == insert(store.bidders, s, balance)
        IN  IF store.HIGHEST_BID # None
            THEN LET addr == store.HIGHEST_BID[1] IN
                 IF addr # s
                 THEN IF addr \notin Keys(map)
                      THEN Err(store, "bidders: not found")
                      ELSE IF Outbids(balance, get_or_default(map, addr))
                           THEN Ok([HIGHEST_BID |-> Some(s), bidders |-> map], << >>)
                           ELSE Ok([HIGHEST_BID |-> store.HIGHEST_BID, bidders |-> map], << >>)
                 ELSE Ok([HIGHEST_BID |-> store.HIGHEST_BID, bidders |-> map], << >>)
            ELSE Ok([HIGHEST_BID |-> FirstBid(s, balance), bidders |-> map], << >>)

IsWinnerNever(highest_bidder, sender) == FALSE

\* retract_bid: highest_bidder == sender
IsWinner(highest_bidder, sender) == highest_bidder = sender

RefundMessagesToAll(sender, balance) ==
    IF held > 0 THEN << BankSend(sender, held) >> ELSE << >>

\* retract_bid: the refund, omitted when the balance is zero
RefundMessages(sender, balance) ==
    IF balance > 0 THEN << BankSend(sender, balance) >> ELSE << >>

retract_bid(store, h, sender) ==
    IF SaleNotFinished(h) THEN Err(store, "Sale hasn't finished yet.")
    ELSE
        LET s == Canonize(sender) IN
        \* HIGHEST_BID.load_or_error
        IF store.HIGHEST_BID = None THEN Err(store, "highest_bid: not found")
        ELSE IF IsWinner(store.HIGHEST_BID[1], s)
        THEN Err(store, "You have won the sale and cannot retract your bid.")
        ELSE
            LET balance == get_or_default(store.bidders, s)
                map == insert(store.bidders, s, 0)
            IN  Ok([HIGHEST_BID |-> store.HIGHEST_BID, bidders |-> map],
                   RefundMessages(sender, balance))

IsAdminAnyone(sender) == TRUE

\* #[admin::require_admin]
IsAdmin(sender) == sender = admin

ClaimMessagesToWinner(sender, addr, balance) ==
    << BankSend(Humanize(addr), balance) >>

ClaimMessagesAllHeld(sender, addr, balance) == << BankSend(sender, held) >>

\* claim_proceeds: the balance of the highest bidder goes to the sender
ClaimMessages(sender, addr, balance) == << BankSend(sender, balance) >>

claim_proceeds(store, h, sender) ==
    IF ~IsAdmin(sender) THEN Err(store, "Unauthorized")
    ELSE IF SaleNotFinished(h) THEN Err(store, "Sale hasn't finished yet.")
    ELSE IF store.HIGHEST_BID # None
    THEN LET addr == store.HIGHEST_BID[1]
             balance == get_or_default(store.bidders, addr)
             map == insert(store.bidders, addr, 0)
         IN  Ok([HIGHEST_BID |-> store.HIGHEST_BID, bidders |-> map],
                ClaimMessages(sender, addr, balance))
    \* No one made any bids on this sale
    ELSE Ok(store, << >>)

\* #[execute_guard]: only SetStatus passes while the contract is not operational
guard(msg) == ~(status # "Operational" /\ msg # "set_status")

\* The handler the message is dispatched to, behind the guard.
Dispatch(msg, sender, funds) ==
    IF ~guard(msg) THEN Err(Store, "Contract is not operational.")
    ELSE CASE msg = "bid" -> bid(Store, height, sender, funds)
           [] msg = "retract_bid" -> retract_bid(Store, height, sender)
           [] msg = "claim_proceeds" -> claim_proceeds(Store, height, sender)

\* The uscrt the response's BankMsg::Send messages move out of the contract.
RECURSIVE Outgoing(_)
Outgoing(messages) ==
    IF messages = << >> THEN 0
    ELSE Head(messages).amount + Outgoing(Tail(messages))

(***************************************************************************)
(* One transaction on the auction: the attached funds reach the contract,  *)
(* the handler runs, the bank executes the response's messages.  A failure *)
(* anywhere discards all of it.  Outcome is the response the sender sees   *)
(* and the storage and bank balance the transaction leaves.                *)
(***************************************************************************)
Outcome(msg, sender, funds) ==
    LET attached == UscrtAmount(funds)
        r == Dispatch(msg, sender, funds)
        paid == r.ok /\ Outgoing(r.messages) <= held + attached
    IN  [ok |-> paid,
         err |-> IF r.ok /\ ~paid THEN "insufficient funds" ELSE r.err,
         messages |-> IF paid THEN r.messages ELSE << >>,
         HIGHEST_BID |-> IF paid THEN r.store.HIGHEST_BID ELSE HIGHEST_BID,
         bidders |-> IF paid THEN r.store.bidders ELSE bidders,
         held |-> IF paid THEN held + attached - Outgoing(r.messages) ELSE held]

\* The histories of payouts, which only the specification HistorySpec keeps.
Payouts(msg, sender, o) ==
    /\ paidOut' = IF o.ok /\ msg = "retract_bid"
                  THEN paidOut \cup {Canonize(sender)}
                  ELSE IF o.ok /\ msg = "claim_proceeds" /\ HIGHEST_BID # None
                  THEN paidOut \cup {HIGHEST_BID[1]}
                  ELSE paidOut
    /\ proceeds' = IF /\ o.ok /\ msg = "claim_proceeds" /\ HIGHEST_BID # None
                      /\ get_or_default(bidders, HIGHEST_BID[1]) > 0
                   THEN proceeds \cup {HIGHEST_BID[1]}
                   ELSE proceeds

Execute(msg, sender, funds, history) ==
    LET o == Outcome(msg, sender, funds) IN
    /\ HIGHEST_BID' = o.HIGHEST_BID
    /\ bidders' = o.bidders
    /\ held' = o.held
    /\ claimed' = (claimed \/ (o.ok /\ msg = "claim_proceeds"))
    /\ retracted' = IF o.ok /\ msg = "retract_bid"
                    THEN retracted \cup {sender} ELSE retracted
    /\ hasBid' = (hasBid \/ (o.ok /\ msg = "bid"))
    /\ IF history THEN Payouts(msg, sender, o)
                  ELSE UNCHANGED << paidOut, proceeds >>
    /\ UNCHANGED << height, INFO, admin, status, fvars >>

Bid(sender, funds) ==
    /\ held + UscrtAmount(funds) <= MaxHeld
    /\ Execute("bid", sender, funds, FALSE)

RetractBid(sender) == Execute("retract_bid", sender, << >>, FALSE)

ClaimProceeds(sender) == Execute("claim_proceeds", sender, << >>, FALSE)

\* retract_bid and claim_proceeds, with the histories of payouts kept
RetractBidPaid(sender) == Execute("retract_bid", sender, << >>, TRUE)

ClaimProceedsPaid(sender) == Execute("claim_proceeds", sender, << >>, TRUE)

\* Killswitch::set_status (killswitch::DefaultImpl): the admin pauses and
\* resumes the contract, or sets it to migrating, which nobody can reverse.
\* It passes the guard whatever the status.
SetStatus(sender, new) ==
    /\ IsAdmin(sender)
    /\ status # "Migrating"
    /\ new # status
    /\ status' = new
    /\ UNCHANGED << height, INFO, admin, HIGHEST_BID, bidders, held,
                    claimed, retracted, hasBid, paidOut, proceeds,
                    fvars >>

\* Admin::change_admin (admin::DefaultImpl), immediate mode: the admin names
\* the next admin.
ChangeAdmin(sender, new) ==
    /\ guard("change_admin")
    /\ IsAdmin(sender)
    /\ new # admin
    /\ admin' = new
    /\ UNCHANGED << height, INFO, status, HIGHEST_BID, bidders, held,
                    claimed, retracted, hasBid, paidOut, proceeds,
                    fvars >>

\* A block passes.
Tick ==
    /\ height < MaxHeight
    /\ height' = height + 1
    /\ UNCHANGED << INFO, admin, status, HIGHEST_BID, bidders, held,
                    claimed, retracted, hasBid, paidOut, proceeds,
                    fvars >>

(***************************************************************************)
(* The queries.  Pagination { start: u64, limit: u8 }: a u64 is written    *)
(* here as hi * 2^32 + lo, with lo drawn from small numbers.  usize is 32  *)
(* bits wide in the wasm32 build the chain runs and 64 bits wide in the    *)
(* native build of the tests.                                              *)
(***************************************************************************)
\* Pagination::LIMIT
LIMIT == 30

UsizeWidths == {32, 64}

U64(hi, lo) == [hi |-> hi, lo |-> lo]

Pagination(start, limit) == [start |-> start, limit |-> limit]

PaginatedResponse(entries, total) ==
    [ok |-> TRUE, entries |-> entries, total |-> total]

\* pagination.limit.min(Pagination::LIMIT)
Min(a, b) == IF a < b THEN a ELSE b

\* pagination.start as usize: the cast keeps the low 32 bits where usize
\* has no more
AsUsize(n, bits) == IF bits = 32 THEN U64(0, n.lo) ELSE n

\* iterator.skip(n).take(limit)
SkipTake(seq, n, limit) ==
    IF n.hi > 0 \/ n.lo >= Len(seq) THEN << >>
    ELSE SubSeq(seq, n.lo + 1, Min(n.lo + limit, Len(seq)))

\* active_bids
active_bids(map, pagination, bits) ==
    LET all == values(map)
        len == Len(all)
        limit == Min(pagination.limit, LIMIT)
    IN  PaginatedResponse(SkipTake(all, AsUsize(pagination.start, bits), limit), len)

IsFinishedAtEnd(h) == INFO.end_block <= h

\* sale_status: is_finished: info.end_block < env.block.height
IsFinished(h) == INFO.end_block < h

\* sale_status
sale_status(store, h) ==
    IF store.HIGHEST_BID # None /\ store.HIGHEST_BID[1] \notin Keys(store.bidders)
    THEN [ok |-> FALSE, err |-> "bidders: not found"]
    ELSE [ok |-> TRUE, err |-> "",
          info |-> INFO,
          current_highest |->
              IF store.HIGHEST_BID # None
              THEN get_or_default(store.bidders, store.HIGHEST_BID[1])
              ELSE 0,
          is_finished |-> IsFinished(h)]

(***************************************************************************)
(* Auction::new(admin, name, end_block), sent by the factory.              *)
(***************************************************************************)
\* admin::init: the given admin, or the sender of the instantiation
InitialAdmin(given, sender) == IF given # None THEN given[1] ELSE sender

\* Auction::new: the admin role, INFO, and the instance's address as the
\* response's data.  Canonizing an admin string that is no address fails.
new(given, name, end_block, sender, address) ==
    IF given # None /\ given[1] = ""
    THEN [ok |-> FALSE, err |-> "invalid address"]
    ELSE [ok |-> TRUE, err |-> "",
          admin |-> InitialAdmin(given, sender),
          INFO |-> [name |-> name, end_block |-> end_block],
          data |-> Some(address)]

\* The instance is created at height 1, before its end_block, or (the
\* creation path does not reject it) when its end_block has already passed.
AuctionInit ==
    /\ height \in {1, EndBlock + 1}
    /\ LET r == new(Some("admin"), "Road 23", EndBlock, FACTORY, "auction")
       IN  INFO = r.INFO /\ admin = r.admin
    /\ status = "Operational"
    /\ HIGHEST_BID = None
    /\ bidders = << >>
    /\ held = 0
    /\ claimed = FALSE
    /\ retracted = {}
    /\ hasBid = FALSE
    /\ paidOut = {}
    /\ proceeds = {}

(***************************************************************************)
(* The factory.                                                            *)
(***************************************************************************)
\* AUCTION_CONTRACT, saved by the factory's new(): the code of the auction.
AUCTION_CONTRACT == [id |-> "auction_code", code_hash |-> "auction_hash"]

\* CanonicalAddr(Binary::default())
Placeholder == Canonize("")

\* The addresses the chain gives to new instances.
Addresses == {"auction_a", "auction_b", "auction_c", "auction_d"}

Names == {"Road 23", "Lot 7"}

\* create_auction: the entry pushed and the sub-message of the response
create_auction(registry, given, name, end_block) ==
    [auctions |->
         Append(registry,
                [contract |-> [address |-> Placeholder,
                               code_hash |-> AUCTION_CONTRACT.code_hash],
                 info |-> [name |-> name, end_block |-> end_block]]),
     submsg |->
         [id |-> 0, code_id |-> AUCTION_CONTRACT.id,
          code_hash |-> AUCTION_CONTRACT.code_hash,
          msg |-> [admin |-> given, name |-> name, end_block |-> end_block]]]

ReplyIndexFirst(registry) == 1

\* reply: let index = auctions.len(deps.storage)? - 1 (0-based; entries are
\* numbered from 1 here)
ReplyIndex(registry) == Len(registry)

UnexpectedReplyIdNever(id) == FALSE

\* reply: if reply.id != 0
UnexpectedReplyId(id) == id # 0

\* reply, but for a response without data, which it lets pass
replyLenient(registry, r) ==
    IF UnexpectedReplyId(r.id)
    THEN [ok |-> FALSE, err |-> "Unexpected reply id.", auctions |-> registry]
    ELSE IF r.data = None \/ registry = << >>
    THEN [ok |-> TRUE, err |-> "", auctions |-> registry]
    ELSE [ok |-> TRUE, err |-> "",
          auctions |-> [registry EXCEPT ![ReplyIndex(registry)].contract.address =
                                            Canonize(r.data[1])]]

\* reply
reply(registry, r) ==
    IF UnexpectedReplyId(r.id) THEN [ok |-> FALSE, err |-> "Unexpected reply id.", auctions |-> registry]
    \* resp.data.as_ref().unwrap()
    ELSE IF r.data = None THEN [ok |-> FALSE, err |-> "panic: unwrap on None", auctions |-> registry]
    ELSE IF registry = << >> THEN [ok |-> FALSE, err |-> "panic: overflow", auctions |-> registry]
    ELSE LET address == r.data[1]
             index == ReplyIndex(registry)
         IN  [ok |-> TRUE, err |-> "",
              auctions |-> [registry EXCEPT ![index].contract.address = Canonize(address)]]

NoMsg == [id |-> 0]

\* AuctionEntry<CanonicalAddr>::humanize
HumanizeEntry(entry) ==
    [entry EXCEPT !.contract.address = Humanize(entry.contract.address)]

\* list_auctions
list_auctions(registry, pagination, bits) ==
    LET limit == Min(pagination.limit, LIMIT)
        window == SkipTake(registry, AsUsize(pagination.start, bits), limit)
    IN  PaginatedResponse([i \in 1..Len(window) |-> HumanizeEntry(window[i])],
                          Len(registry))

\* The factory's handler of create_auction: the first step of the transaction.
CreateAuction(given, name, end_block) ==
    /\ pc = "idle"
    /\ Len(auctions) < MaxAuctions
    /\ LET r == create_auction(auctions, given, name, end_block) IN
       /\ auctions' = r.auctions
       /\ submsg' = r.submsg
    /\ pc' = "instantiate"
    /\ UNCHANGED << committed, instances, discarded, spawning, avars >>

\* The chain executes WasmMsg::Instantiate: Auction::new runs at a fresh
\* address with the factory as sender.  The chain may refuse the instantiation
\* itself (accepted = FALSE).  The sub-message asks for a reply on success
\* only: a failure fails the whole transaction, which is rolled back.
Instantiated(address, accepted) ==
    LET m == submsg.msg
        r == new(m.admin, m.name, m.end_block, FACTORY, address)
    IN  IF accepted /\ r.ok
        THEN [ok |-> TRUE, auctions |-> auctions,
              reply |-> [id |-> submsg.id, data |-> r.data],
              instance |-> Some([address |-> address, admin |-> r.admin,
                                 INFO |-> r.INFO, msg |-> m,
                                 created_at |-> height])]
        ELSE [ok |-> FALSE, auctions |-> committed, reply |-> NoMsg,
              instance |-> None]

Instantiate(address, accepted) ==
    /\ pc = "instantiate"
    /\ address \notin {instances[i].address : i \in 1..Len(instances)}
    /\ LET t == Instantiated(address, accepted) IN
       /\ auctions' = t.auctions
       /\ spawning' = t.instance
       /\ submsg' = t.reply
       /\ pc' = IF t.ok THEN "reply" ELSE "idle"
       /\ discarded' = IF t.ok THEN discarded ELSE TRUE
    /\ UNCHANGED << committed, instances, avars >>

\* The chain delivers the reply; the transaction then commits, or is rolled
\* back when reply fails.
Replied(r) ==
    LET x == reply(auctions, r) IN
    [ok |-> x.ok, err |-> x.err,
     auctions |-> IF x.ok THEN x.auctions ELSE committed]

Reply ==
    /\ pc = "reply"
    /\ LET t == Replied(submsg) IN
       /\ auctions' = t.auctions
       /\ committed' = t.auctions
       /\ instances' = IF t.ok THEN Append(instances, spawning[1]) ELSE instances
       /\ discarded' = ~t.ok
    /\ spawning' = None
    /\ submsg' = NoMsg
    /\ pc' = "idle"
    /\ UNCHANGED avars

\* The factory after its own instantiation.
FactoryInit ==
    /\ auctions = << >>
    /\ committed = << >>
    /\ instances = << >>
    /\ pc = "idle"
    /\ submsg = NoMsg
    /\ discarded = FALSE
    /\ spawning = None

Init == AuctionInit /\ FactoryInit

Next ==
    \/ \E sender \in Users, funds \in Funds : Bid(sender, funds)
    \/ \E sender \in Users : RetractBid(sender)
    \/ \E sender \in Users : ClaimProceeds(sender)
    \/ \E sender \in Users, new_status \in {"Operational", "Paused", "Migrating"} :
           SetStatus(sender, new_status)
    \/ \E sender \in Users, new_admin \in Users : ChangeAdmin(sender, new_admin)
    \/ Tick

Spec == Init /\ [][Next]_vars

\* The auction with the histories of payouts.
HistoryNext ==
    \/ \E sender \in Users, funds \in Funds : Bid(sender, funds)
    \/ \E sender \in Users : RetractBidPaid(sender)
    \/ \E sender \in Users : ClaimProceedsPaid(sender)
    \/ \E sender \in Users, new_status \in {"Operational", "Paused", "Migrating"} :
           SetStatus(sender, new_status)
    \/ \E sender \in Users, new_admin \in Users : ChangeAdmin(sender, new_admin)
    \/ Tick

HistorySpec == Init /\ [][HistoryNext]_vars

FactoryNext ==
    \/ \E given \in {None, Some("admin"), Some("")}, name \in Names,
          end_block \in 0..EndBlock :
           CreateAuction(given, name, end_block)
    \/ \E address \in Addresses, accepted \in BOOLEAN : Instantiate(address, accepted)
    \/ Reply

FactorySpec == Init /\ [][FactoryNext]_vars

(***************************************************************************)
(* Properties of the auction.  A property of a call is stated over every   *)
(* reachable state and every sender: Outcome is what the call returns and  *)
(* leaves there.  Where a property names the error of a handler, the call  *)
(* is one the guard lets through to the handler.                           *)
(***************************************************************************)
Closed == height > INFO.end_block

Balance(map, sender) == get_or_default(map, Canonize(sender))

NoEffect(o) ==
    /\ o.HIGHEST_BID = HIGHEST_BID
    /\ o.bidders = bidders
    /\ o.held = held
    /\ o.messages = << >>

Settled == claimed \/ retracted # {}

NotFinishedYet == "Sale hasn't finished yet."

WonTheSale == "You have won the sale and cannot retract your bid."

\* C1: bid() fails with "Sale has finished." when height > end_block;
\* retract_bid() and claim_proceeds() (by the admin, the only caller the role
\* check lets reach the phase check) fail with "Sale hasn't finished yet." when
\* height <= end_block; the failed call changes no state.
C1_PhaseGating ==
    status = "Operational" =>
        /\ \A sender \in Users, funds \in Funds :
               LET o == Outcome("bid", sender, funds) IN
               height > INFO.end_block =>
                   ~o.ok /\ o.err = "Sale has finished." /\ NoEffect(o)
        /\ \A sender \in Users :
               LET o == Outcome("retract_bid", sender, << >>) IN
               height <= INFO.end_block =>
                   ~o.ok /\ o.err = NotFinishedYet /\ NoEffect(o)
        /\ LET o == Outcome("claim_proceeds", admin, << >>) IN
           height <= INFO.end_block =>
               ~o.ok /\ o.err = NotFinishedYet /\ NoEffect(o)

\* C2: while no retract_bid() and no claim_proceeds() has succeeded, the uscrt
\* the contract holds equals the sum of all ledger balances.
C2_FundConservation == ~Settled => held = LedgerTotal(bidders)

C2_Witness ==
    /\ ~Settled
    /\ Len(bidders) >= 2
    /\ held = MaxHeld
    /\ \E i \in 1..Len(bidders) : bidders[i].value >= 2

\* C3: after any sequence of successful bid() calls the ledger balance of the
\* recorded highest bidder is >= the ledger balance of every other bidder.
C3_HighestIsMaximal ==
    (~Settled /\ bidders # << >>) =>
        /\ HIGHEST_BID # None
        /\ HIGHEST_BID[1] \in Keys(bidders)
        /\ \A key \in Keys(bidders) :
               get_or_default(bidders, HIGHEST_BID[1]) >= get_or_default(bidders, key)

\* The first bidder has been outbid by a later one.
C3_Witness ==
    /\ ~Settled
    /\ Len(bidders) >= 2
    /\ HIGHEST_BID = Some(bidders[2].key)
    /\ bidders[2].value > bidders[1].value
    /\ bidders[1].value > 0

\* C4: in the Closed phase retract_bid() by the recorded highest bidder (a
\* call the guard lets through) fails with the "won the sale" error, not the
\* phase error, changes no ledger entry and sends no funds.
C4_WinnerCannotRetract ==
    \A sender \in Users :
        LET o == Outcome("retract_bid", sender, << >>) IN
        (Closed /\ guard("retract_bid") /\ HIGHEST_BID = Some(Canonize(sender))) =>
            /\ ~o.ok
            /\ o.err = WonTheSale
            /\ o.err # NotFinishedYet
            /\ NoEffect(o)

C4_Witness ==
    /\ Closed
    /\ HIGHEST_BID = Some(Canonize("alice"))
    /\ Balance(bidders, "alice") > 0
    /\ Balance(bidders, "bob") > 0
    /\ Outcome("retract_bid", "alice", << >>).err = WonTheSale
    /\ Outcome("retract_bid", "bob", << >>).ok

\* What C5 says retract_bid() by sender does.
Refunded(sender, o) ==
    /\ o.ok
    /\ Balance(o.bidders, sender) = 0
    /\ Canonize(sender) \in Keys(o.bidders)
    /\ o.messages = IF Balance(bidders, sender) > 0
                    THEN << BankSend(sender, Balance(bidders, sender)) >>
                    ELSE << >>
    /\ o.held = held - Balance(bidders, sender)
    /\ \A other \in Keys(bidders) \ {Canonize(sender)} :
           get_or_default(o.bidders, other) = get_or_default(bidders, other)
    /\ Keys(o.bidders) = Keys(bidders) \cup {Canonize(sender)}
    /\ o.HIGHEST_BID = HIGHEST_BID

\* C5 as claimed: in every Closed-phase state, an auction without any bid
\* included, retract_bid() by a caller who is not the highest bidder succeeds,
\* zeroes the caller's entry, refunds exactly the balance it held (nothing when
\* zero) and leaves the other entries and the pointer unchanged.
C5_LoserRefund_AsClaimed ==
    \A sender \in Users :
        (Closed /\ guard("retract_bid") /\ HIGHEST_BID # Some(Canonize(sender))) =>
            Refunded(sender, Outcome("retract_bid", sender, << >>))

\* C5 amended: the same, in the Closed-phase states in which a highest bidder
\* is recorded; with no bid ever placed the call fails and changes nothing.
C5_LoserRefund ==
    \A sender \in Users :
        LET o == Outcome("retract_bid", sender, << >>) IN
        (Closed /\ guard("retract_bid") /\ HIGHEST_BID # Some(Canonize(sender))) =>
            IF HIGHEST_BID # None
            THEN Refunded(sender, o)
            ELSE ~o.ok /\ o.err = "highest_bid: not found" /\ NoEffect(o)

\* bob, a losing bidder, has been refunded.
C5_Witness ==
    /\ Closed
    /\ "bob" \in retracted
    /\ HIGHEST_BID = Some(Canonize("alice"))
    /\ Balance(bidders, "alice") > 0
    /\ Balance(bidders, "admin") > 0
    /\ Canonize("bob") \in Keys(bidders)
    /\ Balance(bidders, "bob") = 0
    /\ held = Balance(bidders, "alice") + Balance(bidders, "admin")

\* C6: claim_proceeds() by a caller who is not the current admin fails in
\* every phase, changes no ledger entry and transfers no funds.
C6_ClaimIsAdminOnly ==
    \A sender \in Users :
        LET o == Outcome("claim_proceeds", sender, << >>) IN
        sender # admin => ~o.ok /\ NoEffect(o)

\* A former admin is refused on a finished sale with proceeds to claim.
C6_Witness ==
    /\ Closed
    /\ status = "Operational"
    /\ admin = "alice"
    /\ HIGHEST_BID = Some(Canonize("bob"))
    /\ Balance(bidders, "bob") > 0
    /\ Outcome("claim_proceeds", "admin", << >>).err = "Unauthorized"
    /\ Outcome("claim_proceeds", "alice", << >>).ok

\* C7: a successful claim_proceeds() by the admin in the Closed phase zeroes
\* the highest bidder's entry and sends exactly its former balance to the
\* admin, leaving the other entries and the pointer unchanged; with no bid
\* ever placed it sends nothing and changes nothing.
C7_ClaimEffect ==
    LET o == Outcome("claim_proceeds", admin, << >>) IN
    (Closed /\ o.ok) =>
        IF HIGHEST_BID # None
        THEN LET addr == HIGHEST_BID[1] IN
             /\ get_or_default(o.bidders, addr) = 0
             /\ o.messages = << BankSend(admin, get_or_default(bidders, addr)) >>
             /\ o.held = held - get_or_default(bidders, addr)
             /\ Keys(o.bidders) = Keys(bidders)
             /\ \A other \in Keys(bidders) \ {addr} :
                    get_or_default(o.bidders, other) = get_or_default(bidders, other)
             /\ o.HIGHEST_BID = HIGHEST_BID
        ELSE NoEffect(o)

\* The proceeds have been claimed while a losing bid is still in the ledger.
C7_Witness ==
    /\ Closed
    /\ claimed
    /\ HIGHEST_BID = Some(Canonize("alice"))
    /\ Balance(bidders, "alice") = 0
    /\ Balance(bidders, "bob") > 0
    /\ held = Balance(bidders, "bob")
    /\ guard("claim_proceeds")

\* C8: after one successful claim_proceeds() every later claim_proceeds()
\* sends no funds and is a no-op: it emits no transfer and changes no state.
C8_ClaimIdempotent ==
    claimed =>
        \A sender \in Users :
            LET o == Outcome("claim_proceeds", sender, << >>) IN
            o.ok => NoEffect(o)

\* C9: after one successful retract_bid() by a caller, every later
\* retract_bid() by that caller succeeds, emits no transfer and leaves the
\* ledger unchanged.
C9_RetractIdempotent ==
    \A sender \in retracted :
        LET o == Outcome("retract_bid", sender, << >>) IN
        guard("retract_bid") => o.ok /\ NoEffect(o)

\* C13 as claimed: in every reachable state the pointer, if present, names a
\* ledger key whose value is the maximum over all ledger values, and it is
\* absent exactly when no bid() has ever succeeded.
C13_PointerInvariant_AsClaimed ==
    /\ HIGHEST_BID = None <=> ~hasBid
    /\ HIGHEST_BID # None =>
           /\ HIGHEST_BID[1] \in Keys(bidders)
           /\ \A key \in Keys(bidders) :
                  get_or_default(bidders, HIGHEST_BID[1]) >= get_or_default(bidders, key)

\* C13: in every reachable state the pointer is absent exactly when no bid()
\* has ever succeeded and, if present, names a ledger key; until
\* claim_proceeds() first succeeds that key's value is the maximum over all
\* ledger values.
C13_PointerInvariant ==
    /\ HIGHEST_BID = None <=> ~hasBid
    /\ HIGHEST_BID = None => bidders = << >>
    /\ HIGHEST_BID # None =>
           /\ HIGHEST_BID[1] \in Keys(bidders)
           /\ ~claimed =>
                  \A i \in 1..Len(bidders) :
                      bidders[i].value <= get_or_default(bidders, HIGHEST_BID[1])

\* Losers have retracted around the highest bidder, who was second to bid
\* and overtook the first; nothing has been claimed.
C13_Witness ==
    /\ ~claimed
    /\ retracted # {}
    /\ Len(bidders) = 3
    /\ HIGHEST_BID = Some(bidders[2].key)
    /\ bidders[1].value = 0
    /\ bidders[2].value >= 2

\* C14: a ledger value never decreases in a step that does not pay it out,
\* and a value that a payout (retract_bid() by its bidder, claim_proceeds()
\* for the highest bidder) has set to zero is never incremented again.
C14_LedgerLifecycle ==
    [][\A sender \in Users :
           LET key == Canonize(sender) IN
           /\ key \notin paidOut' =>
                  get_or_default(bidders', key) >= get_or_default(bidders, key)
           /\ key \in paidOut =>
                  get_or_default(bidders', key) <= get_or_default(bidders, key)]_vars

\* C15: on an auction without a recorded highest bidder every bid() that
\* succeeds records its sender as the highest bidder, whatever is attached,
\* an amount of zero included.
C15_FirstBid ==
    HIGHEST_BID = None =>
        /\ ~hasBid
        /\ \A sender \in Users, funds \in Funds :
               LET o == Outcome("bid", sender, funds) IN
               /\ o.ok <=> (~Closed /\ guard("bid"))
               /\ o.ok => /\ o.HIGHEST_BID = Some(Canonize(sender))
                          /\ Balance(o.bidders, sender) = UscrtAmount(funds)

\* The only bid so far attached no uscrt: its sender is the highest bidder,
\* with a balance of zero.
C15_Witness ==
    /\ hasBid
    /\ Len(bidders) = 1
    /\ bidders[1].value = 0
    /\ HIGHEST_BID = Some(bidders[1].key)
    /\ retracted = {}
    /\ ~claimed

\* The requests of the pagination properties: starts below, at and beyond
\* the number of entries and beyond 2^32, limits below, at and above LIMIT.
Starts(n) == {U64(hi, lo) : hi \in 0..1, lo \in 0..(n + 1)}

Limits == {0, 1, 2, LIMIT, LIMIT + 1, 255}

\* Positions start .. start + min(limit, 30) - 1 of the entries, counted
\* from 0, as far as they exist.
Window(entries, start, limit) ==
    IF start.hi > 0 THEN << >>
    ELSE LET first == start.lo + 1
             last == Min(start.lo + Min(limit, 30), Len(entries))
         IN  [i \in 1..(IF last >= first THEN last - first + 1 ELSE 0) |->
                  entries[first + i - 1]]

PageAsClaimed(r, entries, start, limit) ==
    /\ r.ok
    /\ r.total = Len(entries)
    /\ (start.hi > 0 \/ start.lo >= Len(entries)) => r.entries = << >>
    /\ r.entries = Window(entries, start, limit)
    /\ Len(r.entries) <= 30

\* C16: for a ledger or registry of N entries, active_bids and list_auctions
\* with start >= N return no entries, without error, and total = N; for any
\* start and limit they return the entries at positions
\* start .. start + min(limit, 30) - 1 in storage order, never more than 30.
C16_PaginationBounds ==
    \A bits \in UsizeWidths, limit \in Limits :
        /\ \A start \in Starts(Len(bidders)) :
               PageAsClaimed(active_bids(bidders, Pagination(start, limit), bits),
                             values(bidders), start, limit)
        /\ \A start \in Starts(Len(committed)) :
               PageAsClaimed(list_auctions(committed, Pagination(start, limit), bits),
                             [i \in 1..Len(committed) |-> HumanizeEntry(committed[i])],
                             start, limit)

\* C17: sale_status() returns the SaleInfo given at creation, the ledger
\* balance of the recorded highest bidder as current_highest (zero when no
\* bid was ever placed), and is_finished exactly when the block height is
\* above end_block; after a single bid of amount a it reports a.
C17_SaleStatus ==
    LET r == sale_status(Store, height) IN
    /\ r.ok
    /\ r.info = [name |-> "Road 23", end_block |-> EndBlock]
    /\ r.is_finished <=> height > EndBlock
    /\ ~hasBid => r.current_highest = 0
    /\ hasBid => /\ HIGHEST_BID # None
                 /\ \E i \in 1..Len(bidders) :
                        /\ bidders[i].key = HIGHEST_BID[1]
                        /\ bidders[i].value = r.current_highest
    /\ ~hasBid =>
           \A sender \in Users, funds \in Funds :
               LET o == Outcome("bid", sender, funds)
                   after == sale_status([HIGHEST_BID |-> o.HIGHEST_BID,
                                         bidders |-> o.bidders], height)
               IN  o.ok => after.ok /\ after.current_highest = UscrtAmount(funds)

\* The sale has not finished at height = end_block, with a highest bidder
\* whose balance is neither the only nor the first in the ledger.
C17_Witness ==
    /\ height = EndBlock
    /\ ~sale_status(Store, height).is_finished
    /\ Len(bidders) >= 2
    /\ HIGHEST_BID = Some(bidders[2].key)
    /\ sale_status(Store, height).current_highest = 2
    /\ bidders[1].value = 1

\* C18: with a highest bidder H recorded, a successful bid() by C adds the
\* attached uscrt to C's balance and moves the pointer to C exactly when
\* C # H and C's new balance is strictly above H's; a tie, and any bid by H,
\* leaves the pointer where it is.
C18_PointerUpdate ==
    HIGHEST_BID # None =>
        \A sender \in Users, funds \in Funds :
            LET o == Outcome("bid", sender, funds)
                H == HIGHEST_BID[1]
                C == Canonize(sender)
                balance == Balance(bidders, sender) + UscrtAmount(funds)
            IN  o.ok =>
                    /\ Balance(o.bidders, sender) = balance
                    /\ o.HIGHEST_BID =
                           IF C # H /\ balance > get_or_default(bidders, H)
                           THEN Some(C) ELSE Some(H)
                    /\ \A key \in Keys(bidders) \ {C} :
                           get_or_default(o.bidders, key) = get_or_default(bidders, key)

\* A later bidder has tied the balance of the highest bidder, who stays.
C18_Witness ==
    /\ ~Settled
    /\ Len(bidders) = 2
    /\ bidders[1].value = 1
    /\ bidders[2].value = 1
    /\ HIGHEST_BID = Some(bidders[1].key)

\* C21: in every reachable state, after any retract_bid and claim_proceeds
\* calls at any heights, the uscrt the contract holds equals the sum of all
\* ledger balances, and the messages of every call the handlers accept are
\* covered by what the contract holds.
C21_Solvency ==
    /\ held = LedgerTotal(bidders)
    /\ \A msg \in {"bid", "retract_bid", "claim_proceeds"}, sender \in Users,
          funds \in Funds :
           LET r == Dispatch(msg, sender, IF msg = "bid" THEN funds ELSE << >>)
               o == Outcome(msg, sender, IF msg = "bid" THEN funds ELSE << >>)
           IN  /\ r.ok => Outgoing(r.messages) <= held
               /\ o.ok = r.ok
               /\ o.held = LedgerTotal(o.bidders)

\* The proceeds have been claimed and a loser has been refunded, both of
\* positive balances, while another loser's bid is still held.
C21_Witness ==
    /\ claimed
    /\ retracted # {}
    /\ Len(bidders) = 3
    /\ held = 1
    /\ LedgerTotal(bidders) = 1
    /\ HIGHEST_BID # None
    /\ get_or_default(bidders, HIGHEST_BID[1]) = 0

\* C22: over any execution claim_proceeds() pays a positive amount to the
\* admin out of at most one bidder's ledger entry, and the funds of every
\* other bidder leave the contract only as the refund retract_bid() sends
\* to that bidder.
C22_SingleWinnerPays ==
    /\ Cardinality(proceeds) <= 1
    /\ \A sender \in Users :
           LET o == Outcome("retract_bid", sender, << >>) IN
           o.ok => /\ \A i \in 1..Len(o.messages) :
                          o.messages[i] = BankSend(sender, Balance(bidders, sender))
                   /\ \A key \in Keys(bidders) \ {Canonize(sender)} :
                          get_or_default(o.bidders, key) = get_or_default(bidders, key)
    /\ \A sender \in Users :
           LET o == Outcome("claim_proceeds", sender, << >>) IN
           o.ok /\ HIGHEST_BID # None =>
               \A key \in Keys(bidders) \ {HIGHEST_BID[1]} :
                   get_or_default(o.bidders, key) = get_or_default(bidders, key)

\* C23: once the block height is above end_block, no step changes the
\* HighestBidPointer or increases a ledger balance, whatever bid,
\* retract_bid and claim_proceeds calls are made; the height never decreases.
C23_WinnerIsFinal ==
    [][/\ height' >= height
       /\ Closed =>
              /\ HIGHEST_BID' = HIGHEST_BID
              /\ \A sender \in Users :
                     Balance(bidders', sender) <= Balance(bidders, sender)
              /\ \A sender \in Users, funds \in Funds :
                     ~Outcome("bid", sender, funds).ok]_vars

\* After the close both losers have retracted and the proceeds are still
\* to be claimed: the pointer names the bidder whose balance is held.
C23_Witness ==
    /\ Closed
    /\ Cardinality(retracted) = 2
    /\ ~claimed
    /\ HIGHEST_BID # None
    /\ held > 0
    /\ held = get_or_default(bidders, HIGHEST_BID[1])

(***************************************************************************)
(* Properties of the factory.                                              *)
(***************************************************************************)
\* C10: with every create_auction completed before the next begins, the i-th
\* registry entry's resolved address is the address of the instance the i-th
\* create_auction spawned, and that instance's SaleInfo and admin are those
\* of the entry and of the call (the admin named in the call, the sender of
\* the instantiation when the call names none).
C10_FactoryCorrelation ==
    pc = "idle" =>
        /\ auctions = committed
        /\ Len(auctions) = Len(instances)
        /\ \A i \in 1..Len(auctions) :
               /\ auctions[i].contract.address # Placeholder
               /\ Humanize(auctions[i].contract.address) = instances[i].address
               /\ instances[i].INFO = auctions[i].info
               /\ instances[i].INFO.name = instances[i].msg.name
               /\ instances[i].INFO.end_block = instances[i].msg.end_block
               /\ instances[i].admin =
                      IF instances[i].msg.admin = None
                      THEN FACTORY ELSE instances[i].msg.admin[1]

\* Two auctions that differ in SaleInfo and admin have been created, at
\* addresses the chain chose.
C10_Witness ==
    /\ pc = "idle"
    /\ Len(auctions) = 2
    /\ auctions[1].info # auctions[2].info
    /\ instances[1].admin # instances[2].admin
    /\ Humanize(auctions[1].contract.address) = "auction_b"
    /\ Humanize(auctions[2].contract.address) = "auction_a"

\* C11: a create_auction whose end_block is not after the height of the block
\* it runs in fails with "End block has already passed.": the instantiation
\* of the auction returns that error, no instance exists that was created at
\* or after its end_block, and no registry entry stands for one.
C11_CreationDeadline ==
    /\ pc = "instantiate" /\ submsg.msg.end_block <= height =>
           \A address \in Addresses :
               LET m == submsg.msg
                   r == new(m.admin, m.name, m.end_block, FACTORY, address)
               IN  ~r.ok /\ r.err = "End block has already passed."
    /\ \A i \in 1..Len(instances) :
           instances[i].INFO.end_block > instances[i].created_at
    /\ \A i \in 1..Len(committed) :
           i <= Len(instances) =>
               committed[i].info.end_block > instances[i].created_at

\* C12: a create_auction transaction whose instantiation of the auction
\* fails, or whose reply fails (an id other than 0, or no address in the
\* response), is discarded as a whole: the registry is then the one before
\* the call, and no committed registry holds a placeholder entry.
C12_Atomicity ==
    /\ \A i \in 1..Len(committed) : committed[i].contract.address # Placeholder
    /\ Len(committed) = Len(instances)
    /\ pc = "idle" => auctions = committed
    /\ pc # "idle" =>
           /\ committed = SubSeq(auctions, 1, Len(auctions) - 1)
           /\ auctions[Len(auctions)].contract.address = Placeholder
    /\ pc = "instantiate" =>
           \A address \in Addresses, accepted \in BOOLEAN :
               LET m == submsg.msg
                   r == new(m.admin, m.name, m.end_block, FACTORY, address)
                   t == Instantiated(address, accepted)
               IN  ~accepted \/ ~r.ok => ~t.ok /\ t.auctions = committed
    /\ pc = "reply" =>
           \A id \in 0..2, data \in {None, submsg.data} :
               LET t == Replied([id |-> id, data |-> data]) IN
               id # 0 \/ data = None => ~t.ok /\ t.auctions = committed

\* A transaction has been discarded after one was committed: the registry is
\* the committed one, of one resolved entry.
C12_Witness ==
    /\ pc = "idle"
    /\ discarded
    /\ Len(committed) = 1
    /\ auctions = committed

\* C19: the registry only grows: committed entries are never removed,
\* reordered or changed, and each holds a resolved address; within a
\* transaction an entry keeps its code_hash and SaleInfo, and its address
\* once it is no longer the placeholder.  (A discarded transaction leaves
\* the committed registry.)
C19_RegistryLifecycle ==
    [][/\ Len(committed') >= Len(committed)
       /\ \A i \in 1..Len(committed) : committed'[i] = committed[i]
       /\ \A i \in 1..Len(committed') :
              committed'[i].contract.address # Placeholder
       /\ \/ /\ pc # "idle" /\ pc' = "idle"
             /\ committed' = committed
             /\ auctions' = committed
          \/ /\ Len(auctions') >= Len(auctions)
             /\ \A i \in 1..Len(auctions) :
                    /\ auctions'[i].info = auctions[i].info
                    /\ auctions'[i].contract.code_hash = auctions[i].contract.code_hash
                    /\ auctions[i].contract.address # Placeholder =>
                           auctions'[i].contract.address = auctions[i].contract.address]_vars

\* The reply to the second create_auction is awaited: the registry holds a
\* resolved entry and, after it, the placeholder entry.
C19_Witness ==
    /\ pc = "reply"
    /\ Len(committed) = 1
    /\ Len(auctions) = 2
    /\ auctions[1].contract.address # Placeholder
    /\ auctions[2].contract.address = Placeholder

\* C20: reply with an id other than 0 fails with "Unexpected reply id." and
\* leaves the registry as it is; a reply that changes the registry has id 0
\* and changes the address of the last entry only.
C20_ReplyId ==
    \A id \in 0..2, data \in {None} \cup {Some(a) : a \in Addresses} :
        LET r == reply(auctions, [id |-> id, data |-> data]) IN
        /\ id # 0 =>
               ~r.ok /\ r.err = "Unexpected reply id." /\ r.auctions = auctions
        /\ ~r.ok => r.auctions = auctions
        /\ id = 0 /\ data # None /\ auctions # << >> =>
               /\ r.ok
               /\ Len(r.auctions) = Len(auctions)
               /\ \A i \in 1..(Len(auctions) - 1) : r.auctions[i] = auctions[i]
               /\ r.auctions[Len(auctions)] =
                      [auctions[Len(auctions)] EXCEPT
                           !.contract.address = Canonize(data[1])]

\* Two create_auction calls of the same SaleInfo have completed, each reply
\* having resolved the entry that was last.
C20_Witness ==
    /\ pc = "idle"
    /\ ~discarded
    /\ Len(committed) = 2
    /\ committed[1].info = committed[2].info
    /\ committed[1].contract.address # committed[2].contract.address

====
